---- MODULE Spec2Model ----
(***************************************************************************)
(* Model of jsdf/robot-control: the planned / committed ArmSolution pair   *)
(* of Robot (src/src/IKRobot.js), plan serialisation, the keyframe         *)
(* Animation driven by requestAnimationFrame, and the validity check.      *)
(*                                                                         *)
(* Numbers.  Angles are whole degrees.  Lengths and coordinates are in     *)
(* thousandths of a world unit (0.001 is 1).  Interpolation parameters     *)
(* and trigonometric values are in thousandths (1.0 is 1000).  Time is in  *)
(* milliseconds, as Date.now() gives it.  JavaScript's undefined and NaN   *)
(* are the two reserved numbers below; arithmetic never produces them.     *)
(***************************************************************************)
EXTENDS Integers, Sequences, FiniteSets, TLC

undefined == 0 - 100000
NaN == 0 - 100000000

(* ---------------------------- bounds ----------------------------------- *)
MaxUpdates == 2        \* Robot.update() calls in a run
MaxAnims == 2          \* playAnimation calls in a run
MaxHeld == 1           \* plans the caller keeps
MaxClock == 2          \* the clock runs for MaxClock * ClockStep ms
IKSamples == 1          \* non-zero delta-theta vectors an IK step is sampled at
MaxFrames == 130       \* frames of 60 Hz a timed run lasts
NumPoses == 4          \* poses SpecValid puts the planned arm in

ClockStep == 1200      \* ms between two observations of Date.now()

(* ---------------------------- Vec3 ------------------------------------- *)
Vec(x, y, z) == [x |-> x, y |-> y, z |-> z]
NaNVec == Vec(NaN, NaN, NaN)
IsNaNVec(v) == v.x = NaN \/ v.y = NaN \/ v.z = NaN
Abs(n) == IF n < 0 THEN 0 - n ELSE n

lerpScalar(v0, v1, t) == (v0 * (1000 - t) + v1 * t) \div 1000

lerp(v1, v2, t) ==
  IF IsNaNVec(v1) \/ IsNaNVec(v2) THEN NaNVec
  ELSE Vec(lerpScalar(v1.x, v2.x, t), lerpScalar(v1.y, v2.y, t),
           lerpScalar(v1.z, v2.z, t))

clone(v) == Vec(v.x, v.y, v.z)

\* copyFrom(v1, v2) overwrites the three fields of v1; the value v1 then holds
copyFrom(v1, v2) == [v1 EXCEPT !.x = v2.x, !.y = v2.y, !.z = v2.z]

\* the square of distanceTo, NaN when either point is NaN
distanceToSquared(a, b) ==
  IF IsNaNVec(a) \/ IsNaNVec(b) THEN NaN
  ELSE (a.x - b.x) * (a.x - b.x) + (a.y - b.y) * (a.y - b.y)
       + (a.z - b.z) * (a.z - b.z)

(* ---------------------------- the arm ---------------------------------- *)
NumNodes == 5                      \* four joints and the end effector
NumJoints == 4
Nodes == 1..NumNodes               \* node i of the source is Nodes element i+1
minTheta == <<0 - 720, 0 - 90, 0 - 130, 0 - 130, 0 - 180>>
maxTheta == <<720, 90, 130, 130, 180>>
ZeroTheta == <<0, 0, 0, 0, 0>>
DefaultTarget == Vec(0, 6000, 0)

SinTab == <<0, 87, 174, 259, 342, 423, 500, 574, 643, 707, 766, 819, 866,
            906, 940, 966, 985, 996, 1000>>
SinQ(d) == SinTab[(d \div 5) + 1]
Sin(d) ==
  LET m == d % 360
  IN IF m <= 90 THEN SinQ(m)
     ELSE IF m <= 180 THEN SinQ(180 - m)
     ELSE IF m <= 270 THEN 0 - SinQ(m - 180)
     ELSE 0 - SinQ(360 - m)
Cos(d) == Sin(d + 90)

\* Tree.Compute: the forward-kinematics pass, node positions s from theta.
\* Segment offsets (0,1,0), (0,3,0), (0,4,0), (0,3,0); node 0 turns about Y,
\* nodes 1..3 about Z.  A node below an undefined theta has a NaN position.
Compute(theta) ==
  LET def(k) == \A j \in 1..k : theta[j] # undefined
      a1 == theta[2]
      a2 == theta[2] + theta[3]
      a3 == theta[2] + theta[3] + theta[4]
      u2 == 0 - 3 * Sin(a1)
      y2 == 1000 + 3 * Cos(a1)
      u3 == u2 - 4 * Sin(a2)
      y3 == y2 + 4 * Cos(a2)
      u4 == u3 - 3 * Sin(a3)
      y4 == y3 + 3 * Cos(a3)
      W(u, y) == Vec((u * Cos(theta[1])) \div 1000, y,
                     (0 - u * Sin(theta[1])) \div 1000)
  IN << Vec(0, 0, 0),
        IF def(1) THEN Vec(0, 1000, 0) ELSE NaNVec,
        IF def(2) THEN W(u2, y2) ELSE NaNVec,
        IF def(3) THEN W(u3, y3) ELSE NaNVec,
        IF def(4) THEN W(u4, y4) ELSE NaNVec >>

serialize(arm) == [i \in Nodes |-> arm.theta[i]]

\* the theta of every node after applySolution(solution): solution[i], which
\* JavaScript reads as undefined past the end of the array
applySolutionMissing(arm, solution) ==
  [i \in Nodes |-> IF i < Len(solution) THEN solution[i + 1] ELSE undefined]

applySolution(arm, solution) ==
  [i \in Nodes |-> IF i <= Len(solution) THEN solution[i] ELSE undefined]

(* ---------------------------- Collision -------------------------------- *)
SPHERE_RADIUS == 100
SPHERE_INTERVAL == SPHERE_RADIUS \div 4
GAP == 1                           \* 0.001, in thousandths

Segments == 1..(NumNodes - 1)      \* segment i joins node i-1 to node i
indexRange(i) == <<i - 1, i>>
SegmentOffset == <<1000, 3000, 4000, 3000>>

\* makeCollisionVolumes: span is the distance between the two nodes of the
\* segment, which is the length of the rigid offset between them
span(i) == SegmentOffset[i]
spanWithGap(i) == span(i) - 2 * ((span(i) * GAP) \div 1000)
spheresCount(i) == spanWithGap(i) \div SPHERE_INTERVAL
Volumes == {v \in Segments \X (0..200) : v[2] < spheresCount(v[1])}
distanceAlongArmSegment(i, k) ==
  GAP + ((1000 - 2 * GAP) * k) \div spheresCount(i)
radius(i, k) ==
  (SPHERE_RADIUS * (1000 - Abs(distanceAlongArmSegment(i, k) - 500) * 2))
    \div 1000

\* _updatePositions: the centre of volume k of segment i, from the node
\* positions s the segment's start and end refer to
center(s, i, k) == lerp(s[i], s[i + 1], distanceAlongArmSegment(i, k))

\* the segment pairs _updateCollisions compares
adjacentOrSame(a, b) ==
  \/ a = b
  \/ indexRange(a)[1] = indexRange(b)[2]
  \/ indexRange(b)[1] = indexRange(a)[2]

\* the test of _updateSegmentCollisions on volume ka of segA, kb of segB
overlap(s, a, ka, b, kb) ==
  LET d2 == distanceToSquared(center(s, a, ka), center(s, b, kb))
      r == radius(a, ka) + radius(b, kb)
  IN d2 # NaN /\ d2 < r * r

\* isColliding of volume <<i, k>> after _updateCollisions: all flags are
\* cleared, then both volumes of every overlapping pair are flagged
isColliding(s, i, k) ==
  \E b \in Segments :
    /\ ~adjacentOrSame(i, b)
    /\ \E kb \in 0..(spheresCount(b) - 1) : overlap(s, i, k, b, kb)

\* _updateSegmentCollisions(segA, segB): the volumes it flags, both volumes
\* of every pair that overlaps
updateSegmentCollisions(s, a, b) ==
  UNION { IF <<a, p[1]>> # <<b, p[2]>> /\ overlap(s, a, p[1], b, p[2])
            THEN {<<a, p[1]>>, <<b, p[2]>>} ELSE {} :
          p \in (0..(spheresCount(a) - 1)) \X (0..(spheresCount(b) - 1)) }

updateCollisionsKeepFlags(flagged, s) ==
  flagged \cup
    UNION { updateSegmentCollisions(s, p[1], p[2]) :
            p \in {q \in Segments \X Segments : ~adjacentOrSame(q[1], q[2])} }

\* _updateCollisions with the volumes at node positions s: the flagged
\* volumes after it, given the flagged volumes before it; every flag is
\* cleared, then the segment pairs are compared
updateCollisions(flagged, s) ==
  LET cleared == {v \in flagged : FALSE}
  IN cleared \cup
       UNION { updateSegmentCollisions(s, p[1], p[2]) :
               p \in {q \in Segments \X Segments : ~adjacentOrSame(q[1], q[2])} }

\* areAnyColliding over a collision whose volumes were last updated at s
areAnyColliding(s) == \E v \in Volumes : isColliding(s, v[1], v[2])

(* ---------------------------- ArmSolution ------------------------------ *)
validatePoint(p, i) == IF i > 0 THEN p.y # NaN /\ p.y >= 0 ELSE TRUE

solutionIsValidNoCollision(arm) ==
  LET s == Compute(arm.theta)
  IN \A i \in Nodes : validatePoint(s[i], i - 1)

\* solutionIsValid() on an arm: collision.update() refreshes the volumes at
\* the current node positions, then the two checks
solutionIsValid(arm) ==
  LET s == Compute(arm.theta)
  IN /\ ~areAnyColliding(s)
     /\ \A i \in Nodes : validatePoint(s[i], i - 1)

(* ---------------------------- IK step ---------------------------------- *)
GammaTotal == 45                   \* most one step turns a joint, degrees
Joints == 1..NumJoints

\* the delta-theta vectors CalcDeltaThetasSDLS is sampled at: none, or one
\* joint turned by the full step, joints and directions taken in turn
NoDelta == [j \in Joints |-> 0]
DeltaSample(k) ==
  [j \in Joints |->
     IF j = (k % NumJoints) + 1
       THEN (IF (k \div NumJoints) % 2 = 0 THEN GammaTotal ELSE 0 - GammaTotal)
       ELSE 0]
DeltaThetas == {NoDelta} \cup {DeltaSample(k) : k \in 1..IKSamples}
\* the samples for the step the constructor of the committed arm takes
ConstructionDeltas == {NoDelta, DeltaSample(1)}

clampTheta(t, i) ==
  IF t < minTheta[i] THEN minTheta[i]
  ELSE IF t > maxTheta[i] THEN maxTheta[i] ELSE t

\* Jacobian.UpdateThetas: every joint gets clamp(theta + dTheta); a step
\* that meets a non-number is discarded and leaves the tree unchanged
UpdateThetas(theta, d) ==
  IF \E i \in Nodes : theta[i] = undefined THEN theta
  ELSE [i \in Nodes |->
          IF i <= NumJoints THEN clampTheta(theta[i] + d[i], i) ELSE theta[i]]

\* stepIKState with the solver's delta-theta d: the thetas after the step
stepIKState(arm, d) == UpdateThetas(arm.theta, d)

\* the mode of the Jacobian after the first statement of stepIKState
modeSelect(arm) == IF arm.useTargets THEN "TargetMode" ELSE "EndMode"

stepIKStateCallsNoClamp(arm) ==
  << IF arm.useTargets THEN "SetJtargetActive" ELSE "SetJendActive",
     "ComputeJacobian", "CalcDeltaThetasSDLS", "UpdateThetas" >>

\* the calls stepIKState makes on the Jacobian, in the order it makes them
stepIKStateCalls(arm) ==
  << IF arm.useTargets THEN "SetJtargetActive" ELSE "SetJendActive",
     "ComputeJacobian", "CalcDeltaThetasSDLS", "UpdateThetas",
     "UpdatedSClampValue" >>

\* the calls ArmSolution.update() makes
updateCalls(arm) == stepIKStateCalls(arm) \o <<"collision.update">>

(* ---------------------------- inputs ----------------------------------- *)
Plan(v, t) == [plan |-> v, target |-> t]
PlanInLimits == Plan(<<0, 45, 0, 0, 0>>, Vec(3000, 2000, 0))
PlanOutOfLimits == Plan(<<0, 0, 180, 180, 0>>, Vec(0, 6000, 0))
ExternalPlans == {PlanOutOfLimits}
Short == <<0, 45>>
TooLong == <<0, 45, 0, 0, 0, 45>>
Solutions == {Short, TooLong, PlanOutOfLimits.plan}

\* where the input device can put the target proxy
TargetPositions == {Vec(1000, 0, 0), Vec(0, 0 - 500, 0)}

Keyframe(ms, p) == [interval |-> ms, plan |-> p]
NoFrame == Keyframe(undefined, Plan(<<>>, NaNVec))
K1 == Keyframe(1000, PlanOutOfLimits)
K2 == Keyframe(1000, PlanInLimits)
Animations == {<<>>, <<K1, K2>>}

\* three keyframes a second apart, and two keyframes two seconds apart
K3 == Keyframe(1000, Plan(ZeroTheta, Vec(0, 3000, 3000)))
Timed3 == <<K2, K1, K3>>
Slow2 == <<Keyframe(2000, PlanOutOfLimits), Keyframe(2000, PlanInLimits)>>
TimedAnimations == {Timed3, Slow2}

(* ---------------------------- state ------------------------------------ *)
VARIABLES
  plannedArmSolution,    \* [theta, targetVectors, collision, useTargets, mode]
  committedArmSolution,  \* the same fields
  targetProxies,         \* targetProxies[0].position
  initialConfiguration,
  initialTarget,
  animation,             \* index into anims of robot.animation, 0 for null
  anims,                 \* every Animation constructed so far
  rafQueue,              \* callbacks requestAnimationFrame holds
  now,                   \* Date.now()
  held,                  \* plans the caller keeps from getPlan()
  numUpdates,
  anneal,                \* the locals of a running _annealSolution
  controls,              \* the state of the CommitControls component
  last                   \* the latest call, its arguments and its result

vars == <<plannedArmSolution, committedArmSolution, targetProxies,
          initialConfiguration, initialTarget, animation, anims, rafQueue,
          now, held, numUpdates, anneal, controls, last>>

null == 0

Arm(theta, target, s) ==
  [theta |-> theta, targetVectors |-> target, collision |-> s,
   useTargets |-> TRUE, mode |-> "TargetMode"]

Call(op) ==
  [op |-> op, vec |-> <<>>, target |-> NaNVec, flag |-> FALSE, who |-> 0,
   outcome |-> "returned", loaded |-> FALSE, wrote |-> FALSE,
   calls |-> <<>>, frame |-> 0, sum |-> 0, flagged |-> {}, before |-> {},
   list |-> <<>>]

\* no _annealSolution is running
NotAnnealing ==
  [pc |-> "idle", oldSol |-> [solution |-> <<>>, cost |-> 0], T |-> 0,
   i |-> 0, evaluated |-> 0, levels |-> 0, counted |-> 0]

\* CommitControls as it is mounted: its React state and commitedRef, and
\* sent, the configuration of the latest request to the server
CommitControls ==
  [clawAngle |-> 0, clawGrip |-> 0, online |-> FALSE, enabled |-> TRUE,
   autoCommit |-> FALSE, commitedRef |-> <<>>, sent |-> <<>>]

\* new ArmSolution(initialSolution): the pose, one IK step, then the
\* Collision built on the node positions
NewArmSolution(initialSolution, d) ==
  LET start == Arm(initialSolution, DefaultTarget, <<>>)
      theta == stepIKState(start, d)
  IN [Arm(theta, DefaultTarget, Compute(theta)) EXCEPT
        !.mode = modeSelect(start)]

\* the 0.01 * Math.random() added to each coordinate of the first target
Jitter == {Vec(9, 4, 0)}

\* The state after new Robot().  The step new ArmSolution() takes from the
\* rest pose, its target on the arm's axis, is the "stuck initial state" and
\* moves nothing; the step after the jitter moves the planned arm.
Init ==
  \E d3 \in ConstructionDeltas, j \in Jitter :
    LET fresh == NewArmSolution(ZeroTheta, NoDelta)
        d2 == DeltaSample(1)
        target == Vec(fresh.targetVectors.x + j.x, fresh.targetVectors.y + j.y,
                      fresh.targetVectors.z + j.z)
        planned == [fresh EXCEPT !.targetVectors = target,
                      !.theta = stepIKState([fresh EXCEPT !.targetVectors = target], d2)]
    IN /\ plannedArmSolution = planned
       /\ initialConfiguration = serialize(planned)
       /\ initialTarget = clone(target)
       /\ committedArmSolution =
            NewArmSolution(applySolution(fresh, serialize(planned)), d3)
       /\ targetProxies = target
       /\ animation = null
       /\ anims = <<>>
       /\ rafQueue = {}
       /\ now = 0
       /\ held = {}
       /\ numUpdates = 0
       /\ anneal = NotAnnealing
       /\ controls = CommitControls
       /\ last = Call("new")

(* ---------------------------- Robot ------------------------------------ *)
groundClampStrict(y) == IF y < 0 THEN 1 ELSE y

\* "can't go below ground": y <= 0 becomes 0.001
groundClamp(y) == IF y <= 0 THEN 1 ELSE y

\* _updateGraphics() and _debugLogging(), which Robot.update() ends with
observerCalls ==
  <<"plannedRenderer.update", "committedRenderer.update", "_debugLogging">>

\* _debugLogging() formats node.theta.toFixed(1) of both arms, a TypeError on
\* an undefined theta
debugLoggingOutcome(planned, committed) ==
  IF \E i \in Nodes : planned[i] = undefined \/ committed[i] = undefined
    THEN "TypeError" ELSE "returned"

UpdateBothArms ==
  /\ numUpdates < MaxUpdates
  /\ \E d \in DeltaThetas :
       LET position == [targetProxies EXCEPT !.y = groundClamp(targetProxies.y)]
           ingested == [plannedArmSolution EXCEPT !.targetVectors = clone(position)]
           theta == stepIKState(ingested, d)
       IN /\ targetProxies' = position
          /\ plannedArmSolution' =
               [ingested EXCEPT !.theta = theta, !.collision = Compute(theta)]
          /\ committedArmSolution' =
               [committedArmSolution EXCEPT
                  !.theta = stepIKState(committedArmSolution, d)]
          /\ last' = [Call("update") EXCEPT !.target = clone(position),
                        !.calls = <<"ingest">> \o updateCalls(ingested)
                                    \o observerCalls]
  /\ numUpdates' = numUpdates + 1
  /\ UNCHANGED <<initialConfiguration, initialTarget,
                 animation, anims, rafQueue, now, held, anneal, controls>>

UpdateCollisionFirst ==
  /\ numUpdates < MaxUpdates
  /\ \E d \in DeltaThetas :
       LET position == [targetProxies EXCEPT !.y = groundClamp(targetProxies.y)]
           ingested == [plannedArmSolution EXCEPT !.targetVectors = clone(position)]
           theta == stepIKState(ingested, d)
       IN /\ targetProxies' = position
          /\ plannedArmSolution' =
               [ingested EXCEPT !.theta = theta,
                                !.collision = Compute(ingested.theta),
                                !.mode = modeSelect(ingested)]
          /\ last' = [Call("update") EXCEPT !.target = clone(position),
                        !.calls = <<"ingest", "collision.update">>
                                    \o stepIKStateCalls(ingested)
                                    \o observerCalls,
                        !.outcome = debugLoggingOutcome(theta,
                                      committedArmSolution.theta)]
  /\ numUpdates' = numUpdates + 1
  /\ UNCHANGED <<committedArmSolution, initialConfiguration, initialTarget,
                 animation, anims, rafQueue, now, held, anneal, controls>>

\* Robot.update(): clamp and copy the target, one IK step, collision
\* refresh, then the renderers and the debug log, which read the state
Update ==
  /\ numUpdates < MaxUpdates
  /\ \E d \in DeltaThetas :
       LET position == [targetProxies EXCEPT !.y = groundClamp(targetProxies.y)]
           ingested == [plannedArmSolution EXCEPT !.targetVectors = clone(position)]
           theta == stepIKState(ingested, d)
       IN /\ targetProxies' = position
          /\ plannedArmSolution' =
               [ingested EXCEPT !.theta = theta, !.collision = Compute(theta),
                                !.mode = modeSelect(ingested)]
          /\ last' = [Call("update") EXCEPT !.target = clone(position),
                        !.calls = <<"ingest">> \o updateCalls(ingested)
                                    \o observerCalls,
                        !.outcome = debugLoggingOutcome(theta,
                                      committedArmSolution.theta)]
  /\ numUpdates' = numUpdates + 1
  /\ UNCHANGED <<committedArmSolution, initialConfiguration, initialTarget,
                 animation, anims, rafQueue, now, held, anneal, controls>>

CommitPlanInitial ==
  /\ committedArmSolution' =
       [committedArmSolution EXCEPT
          !.theta = applySolution(committedArmSolution, initialConfiguration)]
  /\ last' = [Call("commitPlan") EXCEPT !.vec = initialConfiguration]
  /\ UNCHANGED <<plannedArmSolution, targetProxies, initialConfiguration,
                 initialTarget, animation, anims, rafQueue, now,
                 held, numUpdates, anneal, controls>>

\* Robot.commitPlan()
CommitPlan ==
  LET plan == serialize(plannedArmSolution)
  IN /\ committedArmSolution' =
          [committedArmSolution EXCEPT
             !.theta = applySolution(committedArmSolution, plan)]
     /\ last' = [Call("commitPlan") EXCEPT !.vec = plan]
     /\ UNCHANGED <<plannedArmSolution, targetProxies, initialConfiguration,
                    initialTarget, animation, anims, rafQueue, now,
                    held, numUpdates, anneal, controls>>

getPlanTargetShared(arm) == [value |-> arm.targetVectors, shared |-> TRUE]

\* the target of the plan getPlan() returns: Vec3.clone makes a new object
\* of targetVectors[0], which the plan does not share with the arm
getPlanTarget(arm) == [value |-> clone(arm.targetVectors), shared |-> FALSE]

\* Robot.getPlan()
GetPlan ==
  LET plan == Plan(serialize(plannedArmSolution),
                   getPlanTarget(plannedArmSolution).value)
  IN /\ last' = [Call("getPlan") EXCEPT
                   !.vec = plan.plan, !.target = plan.target,
                   !.flag = getPlanTarget(plannedArmSolution).shared]
     /\ UNCHANGED <<plannedArmSolution, committedArmSolution, targetProxies,
                    initialConfiguration, initialTarget, animation, anims,
                    rafQueue, now, held, numUpdates, anneal, controls>>

\* a plan the caller keeps, and whether its target is the object
\* targetVectors[0] of the planned arm
Kept(v, t, shared) == [plan |-> v, target |-> t, shared |-> shared]

\* what the caller reads in a plan it keeps
seen(p) ==
  Plan(p.plan, IF p.shared THEN plannedArmSolution.targetVectors ELSE p.target)

\* the caller keeps the plan getPlan() has just returned, as the "add
\* keyframe" button does
KeepPlan ==
  /\ last.op = "getPlan"
  /\ Cardinality(held) < MaxHeld
  /\ Kept(last.vec, last.target, last.flag) \notin held
  /\ held' = held \cup {Kept(last.vec, last.target, last.flag)}
  /\ UNCHANGED <<plannedArmSolution, committedArmSolution, targetProxies,
                 initialConfiguration, initialTarget, animation, anims,
                 rafQueue, now, numUpdates, last, anneal, controls>>

\* the effect of Robot.loadPlan(args) on the planned thetas and the proxy
loadPlan(arm, position, args) ==
  [theta |-> applySolution(arm, args.plan),
   position |-> copyFrom(position, args.target)]

LoadPlan ==
  \E args \in {seen(p) : p \in held} \cup ExternalPlans :
    LET r == loadPlan(plannedArmSolution, targetProxies, args)
    IN /\ plannedArmSolution' = [plannedArmSolution EXCEPT !.theta = r.theta]
       /\ targetProxies' = r.position
       /\ last' = [Call("loadPlan") EXCEPT !.vec = args.plan,
                     !.target = args.target,
                     !.flag = args \in {seen(p) : p \in held}]
       /\ UNCHANGED <<committedArmSolution, initialConfiguration,
                      initialTarget, animation, anims, rafQueue,
                      now, held, numUpdates, anneal, controls>>

ResetToInitialCancels(alsoResetTarget) ==
  /\ plannedArmSolution' =
       [plannedArmSolution EXCEPT
          !.theta = applySolution(plannedArmSolution, initialConfiguration)]
  /\ targetProxies' = IF alsoResetTarget
                        THEN copyFrom(targetProxies, initialTarget)
                        ELSE targetProxies
  /\ rafQueue' = IF animation # null
                   THEN {c \in rafQueue : c.id # anims[animation].framesTimer}
                   ELSE rafQueue
  /\ last' = [Call("resetToInitial") EXCEPT !.flag = alsoResetTarget]
  /\ UNCHANGED <<committedArmSolution, initialConfiguration, initialTarget,
                 animation, anims, now, held, numUpdates, anneal, controls>>

ResetToInitialAlways(alsoResetTarget) ==
  /\ plannedArmSolution' =
       [plannedArmSolution EXCEPT
          !.theta = applySolution(plannedArmSolution, initialConfiguration)]
  /\ targetProxies' = copyFrom(targetProxies, initialTarget)
  /\ last' = [Call("resetToInitial") EXCEPT !.flag = alsoResetTarget]
  /\ UNCHANGED <<committedArmSolution, initialConfiguration, initialTarget,
                 animation, anims, rafQueue, now, held, numUpdates, anneal, controls>>

\* Robot.resetToInitial(alsoResetTarget)
ResetToInitial(alsoResetTarget) ==
  /\ plannedArmSolution' =
       [plannedArmSolution EXCEPT
          !.theta = applySolution(plannedArmSolution, initialConfiguration)]
  /\ targetProxies' = IF alsoResetTarget
                        THEN copyFrom(targetProxies, initialTarget)
                        ELSE targetProxies
  /\ last' = [Call("resetToInitial") EXCEPT !.flag = alsoResetTarget]
  /\ UNCHANGED <<committedArmSolution, initialConfiguration, initialTarget,
                 animation, anims, rafQueue, now, held, numUpdates, anneal, controls>>

\* the input device (the transform gizmo on the proxy) moves the target
MoveTarget ==
  \E p \in TargetPositions :
    /\ targetProxies # p
    /\ targetProxies' = copyFrom(targetProxies, p)
    /\ last' = [Call("moveTarget") EXCEPT !.target = p]
    /\ UNCHANGED <<plannedArmSolution, committedArmSolution,
                   initialConfiguration, initialTarget, animation, anims,
                   rafQueue, now, held, numUpdates, anneal, controls>>

\* plannedArmSolution.stepIKState(), as the constructor of Robot calls it
StepIKState ==
  \E d \in DeltaThetas :
    /\ plannedArmSolution' =
         [plannedArmSolution EXCEPT
            !.theta = stepIKState(plannedArmSolution, d),
            !.mode = modeSelect(plannedArmSolution)]
    /\ last' = [Call("stepIKState") EXCEPT
                  !.calls = stepIKStateCalls(plannedArmSolution)]
    /\ UNCHANGED <<committedArmSolution, targetProxies, initialConfiguration,
                   initialTarget, animation, anims, rafQueue, now,
                   held, numUpdates, anneal, controls>>

\* plannedArmSolution.ikJacobian.SetJendActive() / SetJtargetActive(), the
\* caller's explicit request for a mode
SetJActive(request, mode) ==
  /\ plannedArmSolution.mode # mode
  /\ plannedArmSolution' = [plannedArmSolution EXCEPT !.mode = mode]
  /\ last' = Call(request)
  /\ UNCHANGED <<committedArmSolution, targetProxies, initialConfiguration,
                 initialTarget, animation, anims, rafQueue, now,
                 held, numUpdates, anneal, controls>>

SetJendActive == SetJActive("SetJendActive", "EndMode")

SetJtargetActive == SetJActive("SetJtargetActive", "TargetMode")

\* plannedArmSolution.applySolution(solution), called from outside Robot
ApplySolutionFrom(solutions) ==
  \E solution \in solutions :
    /\ plannedArmSolution' =
         [plannedArmSolution EXCEPT
            !.theta = applySolution(plannedArmSolution, solution)]
    /\ last' = [Call("applySolution") EXCEPT !.vec = solution]
    /\ UNCHANGED <<committedArmSolution, targetProxies, initialConfiguration,
                   initialTarget, animation, anims, rafQueue, now,
                   held, numUpdates, anneal, controls>>

ApplySolution == ApplySolutionFrom(Solutions \cup {serialize(plannedArmSolution)})

\* the poses SpecValid puts the planned arm in: upright; folded back onto
\* itself above ground; bent over into the ground; folded through the ground;
\* bent level; turned and folded
Poses == << ZeroTheta, <<0, 0, 180, 180, 0>>, <<0, 90, 90, 0, 0>>,
            <<0, 0, 180, 0, 0>>, <<0, 90, 0, 0, 0>>, <<90, 0, 180, 180, 0>>,
            <<0, 90, 0 - 90, 0 - 90, 0>>, <<0, 45, 45, 45, 0>> >>
PoseSolutions == {Poses[k] : k \in 1..NumPoses}
PoseArm == ApplySolutionFrom(PoseSolutions)

\* plannedArmSolution.solutionIsValid(), as the commit button calls it
SolutionIsValid ==
  /\ last.op = "applySolution"
  /\ plannedArmSolution' =
       [plannedArmSolution EXCEPT !.collision = Compute(plannedArmSolution.theta)]
  /\ last' = [Call("solutionIsValid") EXCEPT
                !.flag = solutionIsValid(plannedArmSolution)]
  /\ UNCHANGED <<committedArmSolution, targetProxies, initialConfiguration,
                 initialTarget, animation, anims, rafQueue, now, held,
                 numUpdates, anneal, controls>>

\* plannedArmSolution.collision.update(): the volumes move to the node
\* positions and are flagged anew; before is what they were flagged as by the
\* update before this one
CollisionUpdate ==
  LET before == updateCollisions({}, plannedArmSolution.collision)
      s == Compute(plannedArmSolution.theta)
  IN /\ last.op = "applySolution"
     /\ plannedArmSolution' = [plannedArmSolution EXCEPT !.collision = s]
     /\ last' = [Call("collision.update") EXCEPT
                   !.before = before,
                   !.flagged = updateCollisions(before, s)]
     /\ UNCHANGED <<committedArmSolution, targetProxies, initialConfiguration,
                    initialTarget, animation, anims, rafQueue, now, held,
                    numUpdates, anneal, controls>>

\* plannedArmSolution.validatePoint(p, i), as the renderer calls it
ValidatePoint ==
  \E y \in {0 - 1, 0, 1}, i \in {0, 1, NumNodes - 1} :
    /\ last.op # "validatePoint"
    /\ last' = [Call("validatePoint") EXCEPT !.target = Vec(0, y, 0),
                  !.who = i, !.flag = validatePoint(Vec(0, y, 0), i)]
    /\ UNCHANGED <<plannedArmSolution, committedArmSolution, targetProxies,
                   initialConfiguration, initialTarget, animation, anims,
                   rafQueue, now, held, numUpdates, anneal, controls>>

(* ---------------------------- annealing -------------------------------- *)
\* temperatures are in 1e-9, costs in thousandths, random numbers in
\* thousandths of [0, 1)
T_start == 1000000000
T_min == 10000
alpha(T) == T - T \div 10
annealingE == 2718
InnerLoopFirst == 1
InnerLoopBound == 50

\* what Math.random() is sampled at, and what it is sampled at where it
\* gives the new value of a node
Randoms == {0, 500}
ValueRandoms == {500, 900}

RECURSIVE sqrtBetween(_, _, _)
sqrtBetween(n, lo, hi) ==
  IF lo >= hi THEN lo
  ELSE LET mid == (lo + hi + 1) \div 2
       IN IF mid * mid <= n THEN sqrtBetween(n, mid, hi)
          ELSE sqrtBetween(n, lo, mid - 1)
sqrt(n) == sqrtBetween(n, 0, 46340)

distanceTo(source, dest) ==
  IF IsNaNVec(source) \/ IsNaNVec(dest) THEN NaN
  ELSE sqrt(distanceToSquared(source, dest))

\* _getCostFor with lastSolution null, as ArmSolution leaves it
getCostFor(theta, target) == distanceTo(Compute(theta)[NumNodes], target)

\* "ap > Math.random()" with ap = annealingE * ((oldCost - newCost) / T) and
\* Math.random() = u: annealingE * (oldCost - newCost) > u * T, in the
\* units above and without leaving 32 bits
accepts(oldCost, newCost, T, u) ==
  annealingE * (oldCost - newCost)
    > u * (T \div 1000000) + (u * (T % 1000000)) \div 1000000

\* _generateNeighbourSolution(prev) with the two random numbers r1 and r2
generateNeighbourSolution(prev, r1, r2) ==
  LET i == ((NumNodes * r1) \div 1000) + 1
  IN [prev EXCEPT ![i] = minTheta[i] + (r2 * (maxTheta[i] - minTheta[i])) \div 1000]

\* the vectors the neighbour generator can reach from the pose of Init, and
\* which of them solutionIsValid() accepts when they are applied
NeighbourSolutions ==
  LET start == <<0, 45, 0, 0, 0>>
      once == {start} \cup {generateNeighbourSolution(start, r1, r2) :
                              r1 \in Randoms, r2 \in ValueRandoms}
  IN once \cup UNION {{generateNeighbourSolution(v, r1, r2) :
                          r1 \in Randoms, r2 \in ValueRandoms} : v \in once}

\* the poses the commit controls find the planned arm in: upright, as
\* constructed, and folded back onto itself
ControlPoses == {ZeroTheta, <<0, 45, 0, 0, 0>>, <<0, 0, 180, 180, 0>>}

\* solutionIsValid() with each of these vectors applied to the arm
ValidPoses ==
  {v \in NeighbourSolutions \cup ControlPoses :
     solutionIsValid(Arm(v, DefaultTarget, Compute(v)))}
ValidSolutions == ValidPoses \cap NeighbourSolutions

retriesNever(solution) == FALSE

\* the condition of the do ... while of _generateNeighborSolution, with
\* solution applied to the arm: !this.solutionIsValid()
retries(solution) == solution \notin ValidSolutions

\* _annealSolution(sol) is called on the planned arm with its pose as sol;
\* T > T_min holds and the for loop starts
AnnealStart ==
  /\ anneal.pc = "idle"
  /\ serialize(plannedArmSolution) \in ValidSolutions
  /\ anneal' = [pc |-> "for",
                oldSol |-> [solution |-> serialize(plannedArmSolution),
                            cost |-> getCostFor(plannedArmSolution.theta,
                                       plannedArmSolution.targetVectors)],
                T |-> T_start, i |-> InnerLoopFirst, evaluated |-> 0,
                levels |-> 0, counted |-> 0]
  /\ last' = Call("_annealSolution")
  /\ UNCHANGED <<plannedArmSolution, committedArmSolution, targetProxies,
                 initialConfiguration, initialTarget, animation, anims,
                 rafQueue, now, held, numUpdates, controls>>

\* one pass of the for loop: _generateNeighborSolution(oldSol), which tries
\* neighbours until solutionIsValid() accepts one, then the acceptance test
AnnealCandidate ==
  /\ anneal.pc = "for"
  /\ anneal.i < InnerLoopBound
  /\ \E r1 \in Randoms, r2 \in ValueRandoms, u \in Randoms :
       LET solution == generateNeighbourSolution(anneal.oldSol.solution, r1, r2)
           newSol == [solution |-> solution,
                      cost |-> getCostFor(solution,
                                 plannedArmSolution.targetVectors)]
       IN /\ ~retries(solution)
          /\ plannedArmSolution' =
               [plannedArmSolution EXCEPT
                  !.theta = applySolution(plannedArmSolution, solution),
                  !.collision = Compute(solution)]
          /\ anneal' = [anneal EXCEPT
                          !.oldSol = IF accepts(anneal.oldSol.cost, newSol.cost,
                                                anneal.T, u)
                                       THEN newSol ELSE @,
                          !.i = @ + 1,
                          !.evaluated = @ + 1]
          /\ last' = [Call("_generateNeighborSolution") EXCEPT
                        !.vec = solution,
                        !.flag = accepts(anneal.oldSol.cost, newSol.cost,
                                         anneal.T, u)]
  /\ UNCHANGED <<committedArmSolution, targetProxies,
                 initialConfiguration, initialTarget, animation, anims,
                 rafQueue, now, held, numUpdates, controls>>

\* the for loop is over: T = T * alpha, then the test of the while loop,
\* which starts the for loop again or returns oldSol
AnnealCool ==
  /\ anneal.pc = "for"
  /\ ~(anneal.i < InnerLoopBound)
  /\ anneal' = [anneal EXCEPT
                  !.T = alpha(@),
                  !.pc = IF alpha(anneal.T) > T_min THEN "for" ELSE "done",
                  !.i = InnerLoopFirst,
                  !.evaluated = 0,
                  !.levels = @ + 1,
                  !.counted = anneal.evaluated]
  /\ last' = IF alpha(anneal.T) > T_min THEN Call("T = T * alpha")
             ELSE [Call("return oldSol") EXCEPT !.vec = anneal.oldSol.solution]
  /\ UNCHANGED <<plannedArmSolution, committedArmSolution, targetProxies,
                 initialConfiguration, initialTarget, animation, anims,
                 rafQueue, now, held, numUpdates, controls>>

\* what Math.random() is sampled at where the neighbour generator is called
\* on its own
Uniforms == {0, 250, 500, 900}

\* _generateNeighbourSolution(oldSol.solution), called on its own
GenerateNeighbour ==
  /\ anneal.pc = "for"
  /\ \E r1 \in Uniforms, r2 \in Uniforms :
       last' = [Call("_generateNeighbourSolution") EXCEPT
                  !.vec = generateNeighbourSolution(anneal.oldSol.solution,
                                                    r1, r2),
                  !.who = (NumNodes * r1) \div 1000]
  /\ UNCHANGED <<plannedArmSolution, committedArmSolution, targetProxies,
                 initialConfiguration, initialTarget, animation, anims,
                 rafQueue, now, held, numUpdates, anneal, controls>>

\* "oldSol = newSol" with the neighbour just generated
AdoptNeighbour ==
  /\ last.op = "_generateNeighbourSolution"
  /\ anneal' = [anneal EXCEPT
                  !.oldSol = [solution |-> last.vec,
                              cost |-> getCostFor(last.vec,
                                         plannedArmSolution.targetVectors)]]
  /\ last' = Call("oldSol = newSol")
  /\ UNCHANGED <<plannedArmSolution, committedArmSolution, targetProxies,
                 initialConfiguration, initialTarget, animation, anims,
                 rafQueue, now, held, numUpdates, controls>>

(* ---------------------------- Animation -------------------------------- *)
\* frames[i] is truthy, i counted from 0 as in the source
frameExists(frames, i) ==
  i >= 0 /\ i < Len(frames) /\ frames[i + 1] # NoFrame
frame(frames, i) == frames[i + 1]

\* last(arr), undefined for the empty array
lastOf(arr) == IF Len(arr) = 0 THEN NoFrame ELSE arr[Len(arr)]

\* the caller's array after new Animation(robot, unloopedAnimation, loop):
\* concat leaves it alone and returns a new array
unloopedAfter(unloopedAnimation, loop) == unloopedAnimation

\* the fields of a new Animation before its first enqueueFrame
NewAnimation(unloopedAnimation, loop) ==
  [frames |-> IF loop THEN Append(unloopedAnimation, lastOf(unloopedAnimation))
              ELSE unloopedAnimation,
   loop |-> loop,
   currentFrame |-> 0,
   startTime |-> now,
   elapsedFrameIntervalSum |-> 0,
   framesTimer |-> null]

\* an Animation nothing refers to any more: not robot.animation, and no
\* callback of it is held by the host
Collected == [frames |-> <<>>, loop |-> FALSE, currentFrame |-> 0,
              startTime |-> 0, elapsedFrameIntervalSum |-> 0,
              framesTimer |-> null]
Sweep(all, queue, current) ==
  [i \in DOMAIN all |->
     IF i = current \/ (\E c \in queue : c.anim = i) THEN all[i]
     ELSE Collected]

\* the id requestAnimationFrame returns: one no callback and no Animation
\* holds
requestAnimationFrame(all, queue) ==
  LET used == {c.id : c \in queue}
                \cup {all[i].framesTimer : i \in DOMAIN all}
  IN CHOOSE id \in 1..(Cardinality(used) + 1) :
       id \notin used /\ \A other \in 1..(id - 1) : other \in used

destroyKeepsTimer(queue, a) == queue

\* Animation.destroy(): cancelAnimationFrame on the active timer
destroy(queue, a) ==
  IF a.framesTimer # null THEN {c \in queue : c.id # a.framesTimer}
  ELSE queue

\* Robot.playAnimation(unloopedAnimation, loop)
PlayAnimationFrom(animations, loops) ==
  \E unloopedAnimation \in animations, loop \in loops :
    LET a == NewAnimation(unloopedAnimation, loop)
        queue == IF animation # null THEN destroy(rafQueue, anims[animation])
                 ELSE rafQueue
        me == Len(anims) + 1
        timer == requestAnimationFrame(anims, queue)
        starts == frameExists(a.frames, a.currentFrame)
        r == loadPlan(plannedArmSolution, targetProxies,
                      frame(a.frames, a.currentFrame).plan)
    IN /\ Len(anims) < MaxAnims
       /\ animation' = me
       /\ IF starts
            THEN /\ rafQueue' = queue \cup {[id |-> timer, anim |-> me]}
                 /\ anims' = Sweep(Append(anims, [a EXCEPT !.framesTimer = timer]),
                                   rafQueue', me)
                 /\ plannedArmSolution' =
                      [plannedArmSolution EXCEPT !.theta = r.theta]
                 /\ targetProxies' = r.position
            ELSE /\ rafQueue' = queue
                 /\ anims' = Sweep(Append(anims, a), rafQueue', me)
                 /\ UNCHANGED <<plannedArmSolution, targetProxies, anneal, controls>>
       /\ last' = [Call("playAnimation") EXCEPT !.who = me, !.flag = loop,
                     !.loaded = starts, !.wrote = starts,
                     !.list = unloopedAfter(unloopedAnimation, loop),
                     !.calls =
                       (IF animation # null /\ anims[animation].framesTimer # null
                          THEN <<"cancelAnimationFrame">> ELSE <<>>)
                       \o (IF starts THEN <<"requestAnimationFrame">>
                           ELSE <<>>)]
       /\ UNCHANGED <<committedArmSolution, initialConfiguration,
                      initialTarget, now, held, numUpdates, anneal, controls>>

PlayAnimation == PlayAnimationFrom(Animations, BOOLEAN)

advancesIgnoringSum(frames, currentFrame, elapsedFrameIntervalSum, sinceStart) ==
  /\ frameExists(frames, currentFrame)
  /\ frame(frames, currentFrame).interval < sinceStart

\* the condition of the while loop of the frame callback
advances(frames, currentFrame, elapsedFrameIntervalSum, sinceStart) ==
  /\ frameExists(frames, currentFrame)
  /\ elapsedFrameIntervalSum + frame(frames, currentFrame).interval
       < sinceStart

\* the while loop of the frame callback; acc carries currentFrame,
\* elapsedFrameIntervalSum, and what loadPlan has done so far: the thetas,
\* the target, and the frames it was called with
RECURSIVE advanceFrames(_, _, _)
advanceFrames(frames, sinceStart, acc) ==
  IF advances(frames, acc.currentFrame, acc.elapsedFrameIntervalSum,
              sinceStart)
    THEN LET next == acc.currentFrame + 1
             summed == acc.elapsedFrameIntervalSum
                         + frame(frames, acc.currentFrame).interval
             r == loadPlan([theta |-> acc.theta], acc.position,
                           frame(frames, next).plan)
         IN advanceFrames(frames, sinceStart,
              IF frameExists(frames, next)
                THEN [currentFrame |-> next, elapsedFrameIntervalSum |-> summed,
                      theta |-> r.theta, position |-> r.position,
                      loaded |-> TRUE, calls |-> Append(acc.calls, next)]
                ELSE [acc EXCEPT !.currentFrame = next,
                                 !.elapsedFrameIntervalSum = summed])
    ELSE acc

frameCompletionFromStart(sinceStart, elapsedFrameIntervalSum, interval) ==
  sinceStart

\* sinceStart - elapsedFrameIntervalSum / interval, in thousandths; the
\* times are in ms here and in s in the source
frameCompletion(sinceStart, elapsedFrameIntervalSum, interval) ==
  sinceStart - (elapsedFrameIntervalSum * 1000) \div interval

\* the keyframes after Vec3.lerp has read the targets of two of them: lerp
\* returns a new object and writes to neither argument
framesAfterLerp(frames, currentFrame, interpolated) == frames

rewindsNever(loop, interpolates) == FALSE

rewindsAlways(loop, interpolates) == ~interpolates

\* "loop && !this.frames[this.currentFrame + 1]"
rewinds(loop, interpolates) == loop /\ ~interpolates

\* the host runs one callback requestAnimationFrame holds
Tick ==
  \E c \in rafQueue :
    LET a == anims[c.anim]
        sinceStart == now - a.startTime
        w == advanceFrames(a.frames, sinceStart,
               [currentFrame |-> a.currentFrame,
                elapsedFrameIntervalSum |-> a.elapsedFrameIntervalSum,
                theta |-> plannedArmSolution.theta,
                position |-> targetProxies, loaded |-> FALSE,
                calls |-> <<>>])
        interpolates == frameExists(a.frames, w.currentFrame + 1)
        interpolated ==
          lerp(frame(a.frames, w.currentFrame).plan.target,
               frame(a.frames, w.currentFrame + 1).plan.target,
               frameCompletion(sinceStart, w.elapsedFrameIntervalSum,
                               frame(a.frames, w.currentFrame).interval))
        position == IF interpolates THEN copyFrom(w.position, interpolated)
                    ELSE w.position
        read == IF interpolates
                  THEN [a EXCEPT !.frames = framesAfterLerp(a.frames,
                                              w.currentFrame, interpolated)]
                  ELSE a
        after == IF rewinds(a.loop, interpolates)
                   THEN [read EXCEPT !.currentFrame = 0, !.startTime = now,
                                     !.elapsedFrameIntervalSum = 0]
                   ELSE [read EXCEPT !.currentFrame = w.currentFrame,
                                     !.elapsedFrameIntervalSum =
                                        w.elapsedFrameIntervalSum]
        again == frameExists(after.frames, after.currentFrame + 1)
        timer == requestAnimationFrame(
                   [anims EXCEPT ![c.anim].framesTimer = null], rafQueue \ {c})
    IN IF a.framesTimer # c.id
         THEN /\ rafQueue' = rafQueue \ {c}
              /\ anims' = Sweep(anims, rafQueue', animation)
              /\ last' = [Call("tick") EXCEPT !.who = c.anim,
                            !.outcome = "killed"]
              /\ UNCHANGED <<plannedArmSolution, targetProxies, anneal, controls>>
         ELSE /\ plannedArmSolution' =
                   [plannedArmSolution EXCEPT !.theta = w.theta]
              /\ targetProxies' = position
              /\ rafQueue' = (rafQueue \ {c}) \cup
                   (IF again THEN {[id |-> timer, anim |-> c.anim]} ELSE {})
              /\ anims' = Sweep([anims EXCEPT ![c.anim] =
                                   [after EXCEPT !.framesTimer =
                                      IF again THEN timer ELSE null]],
                                rafQueue', animation)
              /\ last' = [Call("tick") EXCEPT !.who = c.anim,
                            !.loaded = w.loaded, !.wrote = interpolates,
                            !.flag = again, !.calls = w.calls,
                            !.frame = w.currentFrame,
                            !.sum = w.elapsedFrameIntervalSum]
    /\ UNCHANGED <<committedArmSolution, initialConfiguration, initialTarget,
                   animation, now, held, numUpdates, anneal, controls>>

\* time passes
AdvanceClock ==
  /\ now < MaxClock * ClockStep
  /\ now' = now + ClockStep
  /\ last' = Call("clock")
  /\ UNCHANGED <<plannedArmSolution, committedArmSolution, targetProxies,
                 initialConfiguration, initialTarget, animation, anims,
                 rafQueue, held, numUpdates, anneal, controls>>

\* the frame number of a clock that shows the whole milliseconds of a
\* time advancing by 1/60 s
frameNumber(ms) == (ms * 60 + 999) \div 1000

\* the clock moves on by one frame of 60 Hz, once the callback of this frame
\* has run
Frame60 ==
  /\ frameNumber(now) < MaxFrames
  /\ rafQueue = {} \/ last.op # "frame"
  /\ now' = ((frameNumber(now) + 1) * 1000) \div 60
  /\ last' = Call("frame")
  /\ UNCHANGED <<plannedArmSolution, committedArmSolution, targetProxies,
                 initialConfiguration, initialTarget, animation, anims,
                 rafQueue, held, numUpdates, anneal, controls>>

\* the host runs the callback once in a frame
TickOnFrame == last.op = "frame" /\ Tick

\* the one animation of a timed run is started
PlayTimed == animation = null /\ PlayAnimationFrom(TimedAnimations, BOOLEAN)

\* the one animation of a run is started before the clock has moved
PlayAtStart == now = 0 /\ PlayTimed

(* ---------------------------- Controls --------------------------------- *)
\* the methods class Robot defines
RobotMethods ==
  {"update", "commitPlan", "getPlan", "loadPlan", "resetToInitial",
   "playAnimation", "_debugLogging", "_makeTargetProxy",
   "_createStaticGraphics", "_updateGraphics"}

\* props.robot.method(), a TypeError when Robot has no such method
invoke(method) == IF method \in RobotMethods THEN "returned" ELSE "TypeError"

\* degrees to thousandths of a radian
degToRad(angleDegrees) == (angleDegrees * 31416) \div 1800

\* Math.abs(a - b) < 0.001; the third argument is not used
within(a, b, distance) == Abs(a - b) < 1

\* where the two claw sliders are moved to
ClawValues == {0, 45}

\* the planned arm is in one of the poses the controls find it in
PoseForControls == ApplySolutionFrom(ControlPoses)

\* plannedArmSolution.solutionIsValid()
solutionIsValidAt(arm) ==
  IF serialize(arm) \in NeighbourSolutions \cup ControlPoses
    THEN serialize(arm) \in ValidPoses
    ELSE solutionIsValid(arm)

\* commitToServer(plan, clawAngle, clawGrip) on the component's state c
commitToServer(c, plan, clawAngle, clawGrip) ==
  LET fullArmConfiguration ==
        <<plan[1], plan[2], plan[3], plan[4], clawAngle, clawGrip>>
      prev == c.commitedRef
  IN IF prev # <<>>
          /\ \A i \in 1..6 : within(prev[i], fullArmConfiguration[i], 0)
       THEN c
       ELSE [c EXCEPT
               !.commitedRef = fullArmConfiguration,
               !.sent = IF c.online /\ c.enabled THEN fullArmConfiguration
                        ELSE @]

commitsAlways(valid) == TRUE

\* the test of commitIfValid
commits(valid) == valid

\* commitIfValid(), from the commit button or from the auto-commit timer
CommitIfValid(by) ==
  LET valid == solutionIsValidAt(plannedArmSolution)
      plan == serialize(plannedArmSolution)
  IN /\ plannedArmSolution' =
          [plannedArmSolution EXCEPT
             !.collision = Compute(plannedArmSolution.theta)]
     /\ IF commits(valid)
          THEN /\ committedArmSolution' =
                    [committedArmSolution EXCEPT
                       !.theta = applySolution(committedArmSolution, plan)]
               /\ controls' = commitToServer(controls, plan,
                                 degToRad(controls.clawAngle),
                                 degToRad(controls.clawGrip))
          ELSE UNCHANGED <<committedArmSolution, controls>>
     /\ last' = [Call(by) EXCEPT
                   !.flag = commits(valid),
                   !.vec = IF commits(valid) THEN plan ELSE <<>>]
     /\ UNCHANGED <<targetProxies, initialConfiguration, initialTarget,
                    animation, anims, rafQueue, now, held, numUpdates, anneal>>

CommitButton == CommitIfValid("commit.onClick")

\* the 10 ms interval, which calls commitIfValid while auto-commit is on
AutoCommitTimer == controls.autoCommit /\ CommitIfValid("autoCommit.interval")

ToggleAutoCommit ==
  /\ controls' = [controls EXCEPT !.autoCommit = ~@]
  /\ last' = Call("autoCommit.onChange")
  /\ UNCHANGED <<plannedArmSolution, committedArmSolution, targetProxies,
                 initialConfiguration, initialTarget, animation, anims,
                 rafQueue, now, held, numUpdates, anneal>>

ToggleEnabled ==
  /\ controls' = [controls EXCEPT !.enabled = ~@]
  /\ last' = Call("enabled.onChange")
  /\ UNCHANGED <<plannedArmSolution, committedArmSolution, targetProxies,
                 initialConfiguration, initialTarget, animation, anims,
                 rafQueue, now, held, numUpdates, anneal>>

\* checkAndUpdateNetwork(): the health request comes back
CheckOnline ==
  \E online \in BOOLEAN :
    /\ controls.online # online
    /\ controls' = [controls EXCEPT !.online = online]
    /\ last' = [Call("checkOnline") EXCEPT !.flag = online]
    /\ UNCHANGED <<plannedArmSolution, committedArmSolution, targetProxies,
                   initialConfiguration, initialTarget, animation, anims,
                   rafQueue, now, held, numUpdates, anneal>>

\* onChange of a claw slider: the state is set, then
\* commitToServer(props.robot.getCommitted(), ...) is evaluated
ClawChange(slider) ==
  \E updated \in ClawValues :
    LET set == [controls EXCEPT ![slider] = updated]
        outcome == invoke("getCommitted")
    IN /\ controls[slider] # updated
       /\ controls' =
            IF outcome = "returned"
              THEN commitToServer(set, serialize(committedArmSolution),
                                  degToRad(set.clawAngle), degToRad(set.clawGrip))
              ELSE set
       /\ last' = [Call(slider) EXCEPT
                     !.who = updated,
                     !.outcome = outcome,
                     !.vec = IF outcome = "returned"
                               THEN serialize(committedArmSolution) ELSE <<>>]
       /\ UNCHANGED <<plannedArmSolution, committedArmSolution, targetProxies,
                      initialConfiguration, initialTarget, animation, anims,
                      rafQueue, now, held, numUpdates, anneal>>

ClawAngleChange == ClawChange("clawAngle")

ClawGripChange == ClawChange("clawGrip")

\* a session: the frame loop, the commit, load and reset buttons, and
\* animations
Next ==
  \/ Update
  \/ CommitPlan
  \/ LoadPlan
  \/ \E alsoResetTarget \in BOOLEAN : ResetToInitial(alsoResetTarget)
  \/ PlayAnimation
  \/ Tick
  \/ AdvanceClock

Spec == Init /\ [][Next]_vars

\* planning: the target is dragged, plans are taken, kept and loaded back,
\* and joint vectors are applied to the planned arm
NextPlan ==
  \/ Update
  \/ MoveTarget
  \/ GetPlan
  \/ KeepPlan
  \/ LoadPlan
  \/ ApplySolution

SpecPlan == Init /\ [][NextPlan]_vars

\* getPlan() while the caller keeps no plan, and the first playAnimation
TakePlan == held = {} /\ GetPlan
PlayFirst == anims = <<>> /\ PlayAnimation

\* plans in the caller's hands: plans are taken and kept while the frame
\* loop runs, plans are loaded and committed, the arm is reset, animations
\* play
NextSnapshot ==
  \/ Update
  \/ TakePlan
  \/ KeepPlan
  \/ LoadPlan
  \/ CommitPlan
  \/ \E alsoResetTarget \in BOOLEAN : ResetToInitial(alsoResetTarget)
  \/ PlayFirst
  \/ Tick
  \/ AdvanceClock

SpecSnapshot == Init /\ [][NextSnapshot]_vars

\* validity: the planned arm is posed and checked
NextValid ==
  \/ PoseArm
  \/ SolutionIsValid
  \/ CollisionUpdate
  \/ ValidatePoint

SpecValid == Init /\ [][NextValid]_vars

\* solving: the frame loop and direct steps of the planned arm, the target
\* dragged, the mode of its Jacobian requested by a caller
NextStep ==
  \/ Update
  \/ StepIKState
  \/ MoveTarget
  \/ SetJendActive
  \/ SetJtargetActive
  \/ ApplySolution

SpecStep == Init /\ [][NextStep]_vars

\* annealing: one _annealSolution on the planned arm
NextAnneal ==
  \/ AnnealStart
  \/ AnnealCandidate
  \/ AnnealCool

SpecAnneal == Init /\ [][NextAnneal]_vars

\* the neighbour generator of the annealing, called again and again
NextNeighbour ==
  \/ AnnealStart
  \/ GenerateNeighbour
  \/ AdoptNeighbour

SpecNeighbour == Init /\ [][NextNeighbour]_vars

\* the commit controls: the planned arm is posed, committed by the button
\* or the timer, the claw sliders are moved, the network comes and goes
NextControls ==
  \/ PoseForControls
  \/ CommitButton
  \/ AutoCommitTimer
  \/ ToggleAutoCommit
  \/ ToggleEnabled
  \/ CheckOnline
  \/ ClawAngleChange
  \/ ClawGripChange

SpecControls == Init /\ [][NextControls]_vars

\* timing: one animation played under a clock of 60 Hz
NextTiming ==
  \/ PlayTimed
  \/ Frame60
  \/ TickOnFrame

SpecTiming == Init /\ [][NextTiming]_vars

\* playback: one animation started at time 0; the host keeps moving its
\* clock on and keeps running the callback it holds
NextPlayback ==
  \/ PlayAtStart
  \/ Frame60
  \/ TickOnFrame

SpecPlayback ==
  Init /\ [][NextPlayback]_vars /\ WF_vars(Frame60) /\ WF_vars(TickOnFrame)

(* ---------------------------- claims ----------------------------------- *)
inLimits(theta, j) ==
  theta[j] # undefined /\ minTheta[j] <= theta[j] /\ theta[j] <= maxTheta[j]

\* C1: right after commitPlan(), committed.serialize() equals
\* planned.serialize() element by element, and so does the vector returned.
CommitCopiesPlan ==
  last.op = "commitPlan" =>
    /\ \A i \in Nodes :
         serialize(committedArmSolution)[i] = serialize(plannedArmSolution)[i]
    /\ last.vec = serialize(plannedArmSolution)

CommitAfterTickAndUpdate ==
  /\ last.op = "commitPlan"
  /\ numUpdates > 0
  /\ animation # null
  /\ plannedArmSolution.theta # initialConfiguration
  /\ committedArmSolution.theta = plannedArmSolution.theta

\* C2: no operation but commitPlan() changes committed's joint angles, and
\* commitPlan() changes none of planned's.
ArmsShareNothing ==
  [][/\ last'.op # "commitPlan" =>
          serialize(committedArmSolution)' = serialize(committedArmSolution)
     /\ last'.op = "commitPlan" =>
          serialize(plannedArmSolution)' = serialize(plannedArmSolution)]_vars

PlannedMovedCommittedStayed ==
  /\ last.op \in {"update", "loadPlan", "resetToInitial", "tick"}
  /\ \E i \in DOMAIN anims : anims[i] # Collected
  /\ numUpdates > 0
  /\ committedArmSolution.theta = PlanOutOfLimits.plan
  /\ plannedArmSolution.theta # committedArmSolution.theta

\* C3: loadPlan(p) of a plan p that getPlan() returned earlier, followed at
\* once by getPlan(), returns p: the same joint vector and the same target.
PlanRoundTrip ==
  [][(last.op = "loadPlan" /\ last.flag /\ last'.op = "getPlan") =>
       (last'.vec = last.vec /\ last'.target = last.target)]_vars

\* C4: serialize() right after applySolution(v) returns v for every v of
\* node-count length, and applySolution(serialize()) changes no joint angle.
ApplyThenSerialize ==
  [][last'.op = "applySolution" =>
       /\ Len(last'.vec) = NumNodes =>
            serialize(plannedArmSolution)' = last'.vec
       /\ last'.vec = serialize(plannedArmSolution) =>
            serialize(plannedArmSolution)' = serialize(plannedArmSolution)]_vars

AppliedOtherPose ==
  /\ last.op = "applySolution"
  /\ Len(last.vec) = NumNodes
  /\ numUpdates > 0
  /\ last.vec # initialConfiguration
  /\ plannedArmSolution.theta = last.vec

\* C5: resetToInitial(false) puts the construction snapshot into planned and
\* leaves the live target alone, resetToInitial(true) also puts the initial
\* target into the live target, and no step changes snapshot or initial target.
ResetRestoresSnapshot ==
  [][/\ initialConfiguration' = initialConfiguration
     /\ initialTarget' = initialTarget
     /\ last'.op = "resetToInitial" =>
          /\ serialize(plannedArmSolution)' = initialConfiguration
          /\ targetProxies' =
               IF last'.flag THEN initialTarget ELSE targetProxies]_vars

ResetKeptMovedTarget ==
  /\ last.op = "resetToInitial"
  /\ ~last.flag
  /\ numUpdates > 0
  /\ targetProxies # initialTarget
  /\ plannedArmSolution.theta = initialConfiguration

\* C6: once a new animation has been started, a callback of an earlier
\* animation never calls loadPlan and never writes the live target.
CancelledAnimationIsSilent ==
  (last.op = "tick" /\ (last.loaded \/ last.wrote)) => last.who = animation

SecondAnimationTicks ==
  /\ last.op = "tick"
  /\ last.loaded
  /\ animation = 2
  /\ last.who = 2
  /\ anims[1] = Collected

\* C7: solutionIsValid() returns true exactly when every node of index >= 1
\* has y >= 0 and, the volumes refreshed at the current node positions, no
\* sphere is flagged; validatePoint passes node 0 wherever it is, and any
\* other node exactly when its y >= 0.
ValidMeansAboveGroundAndClear ==
  /\ last.op = "solutionIsValid" =>
       /\ plannedArmSolution.collision = Compute(plannedArmSolution.theta)
       /\ last.flag <=>
            /\ \A i \in 2..NumNodes :
                 /\ ~IsNaNVec(Compute(plannedArmSolution.theta)[i])
                 /\ Compute(plannedArmSolution.theta)[i].y >= 0
            /\ ~areAnyColliding(plannedArmSolution.collision)
  /\ last.op = "validatePoint" =>
       (last.flag <=> (last.who = 0 \/ last.target.y >= 0))

FoldedArmRejected ==
  /\ last.op = "solutionIsValid"
  /\ ~last.flag
  /\ \A i \in Nodes : Compute(plannedArmSolution.theta)[i].y >= 0
  /\ areAnyColliding(plannedArmSolution.collision)

\* C8 as stated: update() turns a target y below 0 into exactly 0 and hands
\* on a target y of 0 or more unchanged.
GroundClampToZero ==
  [][last'.op = "update" =>
       plannedArmSolution'.targetVectors =
         [targetProxies EXCEPT !.y = IF @ < 0 THEN 0 ELSE @]]_vars

\* C8 amended: update() turns a target y of 0 or less into 0.001 and hands on
\* a target y above 0 unchanged; x and z are handed on unchanged.
GroundClampAboveZero ==
  [][last'.op = "update" =>
       /\ plannedArmSolution'.targetVectors =
            [targetProxies EXCEPT !.y = IF @ <= 0 THEN 1 ELSE @]
       /\ targetProxies' = plannedArmSolution'.targetVectors]_vars

TargetOnGroundLifted ==
  /\ last.op = "update"
  /\ plannedArmSolution.targetVectors = Vec(1000, 1, 0)

\* C9: after every update(), every joint of the planned and of the
\* committed arm is within its limits.
JointLimitClosure ==
  last.op = "update" =>
    \A j \in Joints :
      /\ inLimits(plannedArmSolution.theta, j)
      /\ inLimits(committedArmSolution.theta, j)

\* C10: applySolution with a vector whose length is not the node count
\* reports ShapeMismatch and leaves every theta unchanged.
ShapeMismatchReported ==
  [][(last'.op = "applySolution" /\ Len(last'.vec) # NumNodes) =>
       /\ last'.outcome = "ShapeMismatch"
       /\ serialize(plannedArmSolution)' = serialize(plannedArmSolution)]_vars

\* C11: resetToInitial, with either flag, leaves a scheduled callback
\* scheduled and the animation as it is, and the tick that follows it is a
\* tick of the running animation that is not killed.
ResetCancelsNothing ==
  [][/\ last'.op = "resetToInitial" =>
          (rafQueue' = rafQueue /\ anims' = anims /\ animation' = animation)
     /\ (last.op = "resetToInitial" /\ last'.op = "tick") =>
          (last'.outcome = "returned" /\ last'.who = animation)]_vars

TickWritesAfterReset ==
  /\ last.op = "tick"
  /\ last.wrote
  /\ now = 0
  /\ numUpdates = 0
  /\ anims[animation].currentFrame = 0
  /\ plannedArmSolution.theta = initialConfiguration
  /\ plannedArmSolution.theta # frame(anims[animation].frames, 0).plan.plan

\* C12: every stepIKState() makes five calls on the Jacobian, once each and
\* in this order: the mode select, ComputeJacobian, CalcDeltaThetasSDLS,
\* UpdateThetas, UpdatedSClampValue.
StepCallsInOrder ==
  last.op = "stepIKState" =>
    /\ Len(last.calls) = 5
    /\ last.calls[1] \in {"SetJtargetActive", "SetJendActive"}
    /\ last.calls[2] = "ComputeJacobian"
    /\ last.calls[3] = "CalcDeltaThetasSDLS"
    /\ last.calls[4] = "UpdateThetas"
    /\ last.calls[5] = "UpdatedSClampValue"

SteppedToALimit ==
  /\ last.op = "stepIKState"
  /\ numUpdates > 0
  /\ plannedArmSolution.theta[2] = maxTheta[2]
  /\ plannedArmSolution.mode = "TargetMode"

\* C13: the mode of the solver changes only in SetJtargetActive and
\* SetJendActive as the caller requests them; no step changes it.
ModeChangesOnRequestOnly ==
  [][last'.op \notin {"SetJtargetActive", "SetJendActive"} =>
       plannedArmSolution'.mode = plannedArmSolution.mode]_vars

\* C14: in one update() the target is ingested first, then the IK step
\* runs, then the collision volumes are refreshed, and the observers come
\* last, so that they see the target, positions and collision of this tick.
UpdateOrder ==
  last.op = "update" =>
    /\ Len(last.calls) = 10
    /\ last.calls[1] = "ingest"
    /\ \A k \in 2..6 :
         last.calls[k] \in {"SetJtargetActive", "SetJendActive",
                            "ComputeJacobian", "CalcDeltaThetasSDLS",
                            "UpdateThetas", "UpdatedSClampValue"}
    /\ last.calls[7] = "collision.update"
    /\ \A k \in 8..10 :
         last.calls[k] \in {"plannedRenderer.update",
                            "committedRenderer.update", "_debugLogging"}
    /\ plannedArmSolution.targetVectors = targetProxies
    /\ plannedArmSolution.targetVectors.y > 0
    /\ plannedArmSolution.collision = Compute(plannedArmSolution.theta)

ObserversSeeMovedArm ==
  /\ last.op = "update"
  /\ numUpdates = 2
  /\ plannedArmSolution.theta # initialConfiguration
  /\ plannedArmSolution.targetVectors # initialTarget
  /\ plannedArmSolution.collision = Compute(plannedArmSolution.theta)

\* C15: with the clock at 60 Hz and the three keyframes a second apart
\* played once, the target stands on keyframe k's target at the tick that
\* falls on the scheduled time of keyframe k, the sum of the intervals before
\* it, for k = 0, 1, 2; that tick is within 1/60 s of the scheduled time.
ScheduledTime(frames, k) ==
  IF k = 0 THEN 0
  ELSE IF k = 1 THEN frames[1].interval
  ELSE frames[1].interval + frames[2].interval

KeyframesOnTime ==
  (/\ animation # null
   /\ last.op \in {"tick", "playAnimation"}
   /\ anims[animation].frames = Timed3
   /\ ~anims[animation].loop) =>
    \A k \in 0..2 :
      now - anims[animation].startTime = ScheduledTime(Timed3, k) =>
        targetProxies = Timed3[k + 1].plan.target

SecondKeyframeOnTime ==
  /\ animation # null
  /\ last.op = "tick"
  /\ anims[animation].frames = Timed3
  /\ ~anims[animation].loop
  /\ anims[animation].startTime > 0
  /\ now - anims[animation].startTime = ScheduledTime(Timed3, 2)
  /\ targetProxies = K3.plan.target

\* C17: a tick advances currentFrame while the frame exists and
\* elapsedFrameIntervalSum plus its interval is below sinceStart, adds that
\* interval at each advance, calls loadPlan once for every existing frame it
\* advances onto, in increasing order, and stops past the last frame or at a
\* frame whose interval reaches sinceStart.
RECURSIVE intervalsFrom(_, _, _)
intervalsFrom(frames, from, to) ==
  IF from >= to THEN 0
  ELSE frames[from + 1].interval + intervalsFrom(frames, from + 1, to)

FrameAdvanceLoop ==
  [][(last'.op = "tick" /\ last'.outcome = "returned") =>
       LET a == anims[last'.who]
           sinceStart == now - a.startTime
           reached == last'.frame
           loads == {j \in (a.currentFrame + 1)..reached : j < Len(a.frames)}
       IN /\ reached >= a.currentFrame
          /\ reached <= Len(a.frames)
          /\ last'.sum = a.elapsedFrameIntervalSum
                           + intervalsFrom(a.frames, a.currentFrame, reached)
          /\ \A j \in a.currentFrame..(reached - 1) :
               a.elapsedFrameIntervalSum
                 + intervalsFrom(a.frames, a.currentFrame, j + 1) < sinceStart
          /\ \/ reached >= Len(a.frames)
             \/ last'.sum + a.frames[reached + 1].interval >= sinceStart
          /\ Len(last'.calls) = Cardinality(loads)
          /\ \A n \in 1..Len(last'.calls) :
               last'.calls[n] = a.currentFrame + n
          /\ plannedArmSolution'.theta =
               IF loads = {} THEN plannedArmSolution.theta
               ELSE applySolution(plannedArmSolution,
                      a.frames[last'.calls[Len(last'.calls)] + 1].plan.plan)
     ]_vars

TickAdvancedTwoFrames ==
  /\ last.op = "tick"
  /\ Len(last.calls) = 2
  /\ last.frame = 2
  /\ last.sum = 2000

\* C18: the target a tick writes when a next frame exists lies on the
\* segment between the targets of the current and the next keyframe.
Between(x, a, b) == (a <= x /\ x <= b) \/ (b <= x /\ x <= a)

InterpolatesOnSegment ==
  (last.op = "tick" /\ last.wrote) =>
    LET a == anims[last.who]
        from == a.frames[last.frame + 1].plan.target
        to == a.frames[last.frame + 2].plan.target
    IN /\ Between(targetProxies.x, from.x, to.x)
       /\ Between(targetProxies.y, from.y, to.y)
       /\ Between(targetProxies.z, from.z, to.z)

\* C19: a tick of a looping animation that ends with no next frame resets
\* currentFrame and elapsedFrameIntervalSum to 0 and startTime to the time of
\* the tick, and every tick of a looping animation schedules another one.
LoopRewindsAndReschedules ==
  [][(last'.op = "tick" /\ last'.outcome = "returned"
        /\ anims[last'.who].loop) =>
       LET before == anims[last'.who]
           a == anims'[last'.who]
       IN /\ ~frameExists(before.frames, last'.frame + 1) =>
               /\ a.currentFrame = 0
               /\ a.elapsedFrameIntervalSum = 0
               /\ a.startTime = now'
          /\ a.framesTimer # null
          /\ [id |-> a.framesTimer, anim |-> last'.who] \in rafQueue'
          /\ last'.flag]_vars

LoopRewound ==
  /\ last.op = "tick"
  /\ animation # null
  /\ anims[animation].loop
  /\ ~last.wrote
  /\ now > 0
  /\ anims[animation].startTime = now
  /\ anims[animation].currentFrame = 0
  /\ \E c \in rafQueue : c.anim = animation

\* C16: after Collision.update() a sphere is flagged exactly when a sphere
\* of another segment, not adjacent to its own, has its centre closer than
\* the sum of the two radii; whatever was flagged before does not matter.
NonAdjacent(a, b) == a # b /\ a # b + 1 /\ b # a + 1

FlaggedIffOverlapping ==
  last.op = "collision.update" =>
    \A v \in Volumes :
      v \in last.flagged <=>
        \E w \in Volumes :
          /\ NonAdjacent(v[1], w[1])
          /\ ~IsNaNVec(center(plannedArmSolution.collision, v[1], v[2]))
          /\ ~IsNaNVec(center(plannedArmSolution.collision, w[1], w[2]))
          /\ distanceToSquared(center(plannedArmSolution.collision, v[1], v[2]),
                               center(plannedArmSolution.collision, w[1], w[2]))
               < (radius(v[1], v[2]) + radius(w[1], w[2]))
                   * (radius(v[1], v[2]) + radius(w[1], w[2]))

CollisionFlagsCleared ==
  /\ last.op = "collision.update"
  /\ last.before # {}
  /\ last.flagged = {}

\* C20: at each temperature _annealSolution generates and evaluates 50
\* neighbour candidates before it multiplies the temperature by alpha.
FiftyCandidatesPerLevel ==
  anneal.levels > 0 => anneal.counted = 50

\* C21: a neighbour replaces the current solution exactly when
\* E^((cost - new cost) / T) > u; hence a neighbour whose cost is less than
\* or equal to the current cost is always accepted.
MetropolisAcceptance ==
  [][last'.op = "_generateNeighborSolution" =>
       (getCostFor(last'.vec, plannedArmSolution.targetVectors)
          <= anneal.oldSol.cost => last'.flag)]_vars

\* C22: the vector the neighbour generator returns differs from its input
\* at no more than one index, that index is a joint and the effector's theta
\* stays 0, the new value is within the joint's limits, and the input vector
\* is as it was.
NeighbourPerturbsOneJoint ==
  [][last'.op = "_generateNeighbourSolution" =>
       LET prev == anneal.oldSol.solution
           changed == {i \in Nodes : last'.vec[i] # prev[i]}
       IN /\ Cardinality(changed) <= 1
          /\ \A i \in changed :
               /\ i <= NumJoints
               /\ minTheta[i] <= last'.vec[i]
               /\ last'.vec[i] <= maxTheta[i]
          /\ last'.vec[NumNodes] = 0
          /\ anneal'.oldSol.solution = prev]_vars

\* C23: every candidate _generateNeighborSolution returns was accepted by
\* solutionIsValid() with that vector applied to the arm; started from a valid
\* candidate, _annealSolution returns a valid solution and leaves the arm in
\* a valid state.
AnnealingKeepsValid ==
  /\ last.op = "_generateNeighborSolution" =>
       /\ serialize(plannedArmSolution) = last.vec
       /\ plannedArmSolution.collision = Compute(last.vec)
       /\ last.vec \in ValidSolutions
  /\ anneal.pc \in {"for", "done"} =>
       anneal.oldSol.solution \in ValidSolutions
  /\ last.op = "return oldSol" =>
       /\ last.vec = anneal.oldSol.solution
       /\ serialize(plannedArmSolution) \in ValidSolutions

AnnealingReturnedAnotherPose ==
  /\ last.op = "return oldSol"
  /\ anneal.pc = "done"
  /\ last.vec # initialConfiguration
  /\ serialize(plannedArmSolution) # last.vec
  /\ \E r1 \in Randoms, r2 \in ValueRandoms :
       generateNeighbourSolution(last.vec, r1, r2) \notin ValidSolutions

\* C24: the commit button and the auto-commit timer call commitPlan() only
\* in a state where solutionIsValid() is true of the planned arm, so the
\* vector copied into committed and handed to commitToServer passed the
\* validity check in the state it was taken from.
CommitsOnlyValidPlans ==
  [][(last'.op \in {"commit.onClick", "autoCommit.interval"} /\ last'.flag) =>
       /\ serialize(plannedArmSolution) \in ValidPoses
       /\ last'.vec = serialize(plannedArmSolution)
       /\ serialize(committedArmSolution)' = serialize(plannedArmSolution)
       /\ serialize(plannedArmSolution)' = serialize(plannedArmSolution)
       /\ \A i \in 1..NumJoints :
            controls'.commitedRef[i] = serialize(plannedArmSolution)[i]]_vars

InvalidPoseNotCommitted ==
  /\ last.op = "autoCommit.interval"
  /\ ~last.flag
  /\ serialize(plannedArmSolution) \notin ValidPoses
  /\ controls.commitedRef # <<>>
  /\ serialize(committedArmSolution) # serialize(plannedArmSolution)

\* C28: commitedRef.current is empty or equal to the configuration of the
\* most recent request sent to the server.
CommitedRefIsLastSent ==
  controls.commitedRef = <<>> \/ controls.commitedRef = controls.sent

\* C29: moving a claw slider reads the committed arm's joint vector from the
\* robot and passes it to commitToServer without raising an error.
ClawSlidersCommit ==
  last.op \in {"clawAngle", "clawGrip"} =>
    /\ last.outcome = "returned"
    /\ last.vec = serialize(committedArmSolution)

\* C25: at every moment at most one animation callback is scheduled with
\* the host, over all the animations the robot has created, and no animation
\* has two callbacks pending.
OneCallbackScheduled ==
  /\ Cardinality(rafQueue) <= 1
  /\ \A i \in DOMAIN anims :
       Cardinality({c \in rafQueue : c.anim = i}) <= 1
  /\ \A c \in rafQueue : c.anim = animation /\ anims[c.anim].framesTimer = c.id

SecondAnimationReplacedCallback ==
  /\ last.op = "playAnimation"
  /\ last.who = 2
  /\ last.calls = <<"cancelAnimationFrame", "requestAnimationFrame">>
  /\ rafQueue = {[id |-> anims[2].framesTimer, anim |-> 2]}

\* C26: a non-looping animation terminates: while the host keeps delivering
\* ticks and its clock keeps advancing, eventually a tick ends without
\* scheduling another one, and from then on no callback is pending and no
\* tick writes the target or calls loadPlan.
NonLoopingTerminates ==
  (animation # null /\ ~anims[animation].loop)
    ~> [](rafQueue = {} /\ last.op # "tick")

LastTickScheduledNothing ==
  /\ last.op = "tick"
  /\ ~last.flag
  /\ animation # null
  /\ ~anims[animation].loop
  /\ anims[animation].frames = Timed3
  /\ anims[animation].currentFrame = 2
  /\ rafQueue = {}

\* C27 as stated: between ticks currentFrame indexes an existing keyframe,
\* 0 <= currentFrame < frames.length, after the constructor and after every
\* tick.
CurrentFrameIndexesKeyframe ==
  \A i \in DOMAIN anims :
    (i = animation \/ \E c \in rafQueue : c.anim = i) =>
      /\ 0 <= anims[i].currentFrame
      /\ anims[i].currentFrame < Len(anims[i].frames)

\* C27 amended: between ticks 0 <= currentFrame <= frames.length; in a
\* looping animation currentFrame < frames.length; currentFrame is
\* frames.length only in an animation without keyframes, or in a non-looping
\* one after a tick that came later after the start than the sum of all its
\* intervals, which elapsedFrameIntervalSum then is.
CurrentFrameWithinOrAtEnd ==
  \A i \in DOMAIN anims :
    LET a == anims[i]
    IN /\ 0 <= a.currentFrame
       /\ a.currentFrame <= Len(a.frames)
       /\ a.loop => a.currentFrame < Len(a.frames)
       /\ (a.currentFrame = Len(a.frames) /\ Len(a.frames) > 0) =>
            /\ a.elapsedFrameIntervalSum
                 = intervalsFrom(a.frames, 0, Len(a.frames))
            /\ a.elapsedFrameIntervalSum < now - a.startTime

TickPastLastKeyframe ==
  /\ last.op = "tick"
  /\ animation # null
  /\ ~anims[animation].loop
  /\ Len(anims[animation].frames) = 2
  /\ anims[animation].currentFrame = 2
  /\ rafQueue = {}

\* C30: the joint vector and the target of a plan the caller keeps are
\* changed by no later update(), loadPlan, resetToInitial, commitPlan or
\* tick; no step changes the keyframes of an animation that is playing, and
\* after playAnimation the caller's list is a list it can have given,
\* looping or not.
PlansAreSnapshots ==
  [][/\ \A p \in held : p \in held' /\ seen(p)' = seen(p)
     /\ \A i \in DOMAIN anims :
          (i = animation' \/ \E c \in rafQueue' : c.anim = i) =>
            anims'[i].frames = anims[i].frames
     /\ last'.op = "playAnimation" =>
          \E given \in Animations :
            /\ last'.list = given
            /\ anims'[animation'].frames \in
                 {given, Append(given, lastOf(given))}
     ]_vars

KeptPlanOutlivedChanges ==
  /\ last.op = "tick"
  /\ last.wrote
  /\ numUpdates > 0
  /\ \E p \in held :
       /\ seen(p).target # plannedArmSolution.targetVectors
       /\ seen(p).target # targetProxies
       /\ seen(p).plan # serialize(plannedArmSolution)

====
